---- MODULE Spec2Model ----
(***************************************************************************)
(* AutoEnvForge: the repository scanner (autoenvforge/scanner.py) and the  *)
(* dependency inference engine (autoenvforge/inferencer.py), with the two  *)
(* cache files they keep between runs.                                     *)
(*                                                                         *)
(* Python values are represented as follows.                               *)
(*   dict        a sequence of <<key, value>> pairs with distinct keys, in *)
(*               insertion order (what iteration and json.dump observe)    *)
(*   list        a sequence                                                *)
(*   set         a set; its iteration order is SetOrder(hash seed, set)    *)
(*   str         a string; a classifier label "numpy:1.26" and a           *)
(*               requirements line "numpy==1.20.0" are kept as the         *)
(*               sequence of their ':' / '==' separated parts              *)
(*   None        PyNone                                                    *)
(*   f-string    log entries are tuples <<kind, field, ...>> of the values *)
(*               the f-string interpolates                                 *)
(*   float score an integer number of hundredths (0.7 is 70)               *)
(***************************************************************************)
EXTENDS Integers, Sequences, FiniteSets, TLC

\* ------------------------------------------------------------------ bounds
\* longest import list the analyzer returns for one (directory, language)
MaxImports == 2
\* most lines of one manifest file
MaxLines == 1
\* program invocations (scan then infer) in one behaviour of Spec
MaxRuns == 3

\* ------------------------------------------------------- program constants
\* inferencer.py:52   if result['score'] > 0.7
Threshold == 70
\* scanner.py:19      @retry(stop=stop_after_attempt(3))
RetryAttempts == 3

PyNone == "<None>"

\* ------------------------------------------------------------------- dicts
DHas(d, k) == \E i \in 1..Len(d) : d[i][1] = k

DGet(d, k) == d[CHOOSE i \in 1..Len(d) : d[i][1] = k][2]

\* d[k] = v: an existing key keeps its position, a new one goes last
DSet(d, k, v) ==
    IF DHas(d, k)
    THEN [i \in 1..Len(d) |-> IF d[i][1] = k THEN <<k, v>> ELSE d[i]]
    ELSE Append(d, <<k, v>>)

DKeys(d) == [i \in 1..Len(d) |-> d[i][1]]

DKeySet(d) == {d[i][1] : i \in 1..Len(d)}

RECURSIVE DUpdate(_, _)
\* d.update(e)
DUpdate(d, e) ==
    IF e = <<>> THEN d
    ELSE DUpdate(DSet(d, Head(e)[1], Head(e)[2]), Tail(e))

\* ------------------------------------------------------------------ semver
\* The version strings of the model, parsed as the semver package parses
\* them: MAJOR.MINOR.PATCH, three numeric components, anything else is not a
\* semantic version ("2.0" and "1.9" have two components).
SemverParse(v) ==
    CASE v = "1.9.0"  -> <<1, 9, 0>>
      [] v = "1.20.0" -> <<1, 20, 0>>
      [] v = "1.24.0" -> <<1, 24, 0>>
      [] v = "2.0.0"  -> <<2, 0, 0>>
      [] v = "2.15.0" -> <<2, 15, 0>>
      [] OTHER        -> <<>>

\* semver.valid(v)
SemverValid(v) == SemverParse(v) # <<>>

\* precedence of two parsed versions
SemverLess(a, b) ==
    \/ a[1] < b[1]
    \/ a[1] = b[1] /\ a[2] < b[2]
    \/ a[1] = b[1] /\ a[2] = b[2] /\ a[3] < b[3]

\* semver.compare(a, b) raises ValueError unless both parse
SemverCompareRaises(a, b) == ~SemverValid(a) \/ ~SemverValid(b)

\* semver.compare(a, b), both valid
SemverCompare(a, b) ==
    IF SemverLess(SemverParse(a), SemverParse(b)) THEN -1
    ELSE IF SemverLess(SemverParse(b), SemverParse(a)) THEN 1
    ELSE 0

\* -------------------------------------------------- set iteration order
Langs == {"python", "js"}

Seeds == 0..1

\* The order in which this process iterates a set of language names. It is
\* fixed within one process and depends on the process's string hash seed.
LangOrder(hseed) ==
    IF hseed = 0 THEN <<"python", "js">> ELSE <<"js", "python">>

SetOrder(hseed, S) == SelectSeq(LangOrder(hseed), LAMBDA l : l \in S)

\* hash(str(scanned_data)): equal for equal data within one process, keyed by
\* the process's hash seed across processes.  Collisions of the 64-bit hash
\* are not modelled.
Fingerprint(hseed, data) == <<hseed, data>>

\* ------------------------------------------------------ inferencer helpers
RECURSIVE MergeRequirements(_, _)
\* inferencer.py:104-107: lines holding '==' set merged[dep] = ver
MergeRequirements(lines, merged) ==
    IF lines = <<>> THEN merged
    ELSE LET line == Head(lines)
         IN  MergeRequirements(Tail(lines),
                 IF Len(line) = 2 THEN DSet(merged, line[1], line[2])
                 ELSE merged)

merge_existing_configs(configs, lang) ==
    IF lang = "python" /\ DHas(configs, "requirements.txt")
    THEN MergeRequirements(DGet(configs, "requirements.txt"), <<>>)
    ELSE IF lang = "js" /\ DHas(configs, "package.json")
    THEN LET pkg == DGet(configs, "package.json")
         IN  IF pkg.json_ok
             THEN DUpdate(DUpdate(<<>>, pkg.dependencies), pkg.devDependencies)
             ELSE <<>>
    ELSE <<>>

infer_hidden(imp, lang) ==
    IF lang = "python" /\ imp = "numpy" THEN <<"scipy", "matplotlib">>
    ELSE IF lang = "python" /\ imp = "sklearn" THEN <<"numpy", "scipy">>
    ELSE IF lang = "js" /\ imp = "react" THEN <<"react-dom">>
    ELSE IF lang = "js" /\ imp = "express" THEN <<"body-parser">>
    ELSE <<>>

\* a reconciliation that always takes the inferred version
resolve_version_conflict_inferred(ver1, ver2) == ver2

\* a reconciliation that falls back on the declared version when one of the
\* two is not a valid semantic version
resolve_version_conflict_declared(ver1, ver2) ==
    IF SemverValid(ver1) /\ SemverValid(ver2)
    THEN IF SemverLess(SemverParse(ver1), SemverParse(ver2)) THEN ver2 ELSE ver1
    ELSE ver1

\* max(ver1, ver2, key=parse) returns ver1 unless ver2 is strictly higher.
\* The ValueError handler returning 'latest' is not reachable: parse is only
\* applied to versions that semver.valid accepted.
resolve_version_conflict(ver1, ver2) ==
    IF SemverValid(ver1) /\ SemverValid(ver2)
    THEN IF SemverLess(SemverParse(ver1), SemverParse(ver2)) THEN ver2 ELSE ver1
    ELSE ver2

\* source[dep] is what the package index answers for dep: a version, or
\* "FAIL" for a timeout, no connectivity or an unknown package.  Other
\* ecosystems than python fall off the end of the function: None.
get_latest_version(dep, lang, source) ==
    IF lang = "python"
    THEN IF source[dep] = "FAIL" THEN "latest" ELSE source[dep]
    ELSE PyNone

\* deprecated = {'python': {'tensorflow': '<2.0'}}
DeprecatedCutoff(dep, lang) ==
    IF lang = "python" /\ dep = "tensorflow" THEN "2.0" ELSE ""

\* the 'dep in deprecated.get(lang, {})' half of the conjunction
InDeprecationTable(dep, lang) == DeprecatedCutoff(dep, lang) # ""

is_deprecated_raises(dep, ver, lang) ==
    InDeprecationTable(dep, lang)
        /\ SemverCompareRaises(ver, DeprecatedCutoff(dep, lang))

is_deprecated(dep, ver, lang) ==
    InDeprecationTable(dep, lang)
        /\ SemverCompare(ver, DeprecatedCutoff(dep, lang)) < 0

\* ------------------------------------------------------- Inferencer.infer
RECURSIVE AcceptResults(_, _, _)
\* inferencer.py:51-56: the predictions the classifier returned for imp, in
\* order; acc = [deps, insights] of the subdirectory so far
AcceptResults(results, imp, acc) ==
    IF results = <<>> THEN acc
    ELSE LET result == Head(results)
             dep == result.label
             version == IF Len(dep) > 1 THEN dep[Len(dep)] ELSE "latest"
         IN  AcceptResults(Tail(results), imp,
                 IF result.score > Threshold
                 THEN [deps |-> DSet(acc.deps, dep[1], version),
                       insights |-> Append(acc.insights,
                                      <<"Inferred", dep, imp, result.score>>)]
                 ELSE acc)

\* a classification that consults the rule base only for the imports the
\* classifier made a prediction for
ClassifyOne_rules_on_prediction(imp, lang, answer, acc, a) ==
    IF ~answer.ok
    THEN [acc EXCEPT !.raised = TRUE, !.calls = @ + 1]
    ELSE [raised |-> FALSE,
          deps |-> a.deps,
          insights |-> a.insights,
          hidden |-> IF answer.results = <<>>
                     THEN acc.hidden
                     ELSE acc.hidden \o infer_hidden(imp, lang),
          calls |-> acc.calls + 1]

\* inferencer.py:50-60 for one import: answer is the pipeline's answer to
\* the prompt, [ok |-> FALSE] when the call raises, which nothing in infer
\* catches; a is what the accepted predictions made of deps and insights
ClassifyOne(imp, lang, answer, acc, a) ==
    IF ~answer.ok
    THEN [acc EXCEPT !.raised = TRUE, !.calls = @ + 1]
    ELSE [raised |-> FALSE,
          deps |-> a.deps,
          insights |-> a.insights,
          hidden |-> acc.hidden \o infer_hidden(imp, lang),
          calls |-> acc.calls + 1]

RECURSIVE ClassifyImports(_, _, _, _)
\* inferencer.py:47-60, over parsed['imports'].
\* acc = [raised, deps, insights, hidden, calls]
ClassifyImports(imports, lang, classifier, acc) ==
    IF imports = <<>> \/ acc.raised THEN acc
    ELSE ClassifyImports(Tail(imports), lang, classifier,
             ClassifyOne(Head(imports), lang, classifier[Head(imports)], acc,
                 AcceptResults(classifier[Head(imports)].results,
                     Head(imports),
                     [deps |-> acc.deps, insights |-> acc.insights])))

\* a reconciliation that logs every dependency present on both sides,
\* changed or not
ReconcileOne_logs_all(dep, ver, resolved_ver, acc) ==
    IF DHas(acc.deps, dep)
    THEN [deps |-> DSet(acc.deps, dep, resolved_ver),
          conflicts |->
              Append(acc.conflicts, <<"Resolved", dep, ver, resolved_ver>>)]
    ELSE [acc EXCEPT !.deps = DSet(acc.deps, dep, ver)]

\* inferencer.py:64-70 for one declared dependency; resolved_ver is only
\* read when the dependency was inferred too
ReconcileOne(dep, ver, resolved_ver, acc) ==
    IF DHas(acc.deps, dep)
    THEN [deps |-> DSet(acc.deps, dep, resolved_ver),
          conflicts |->
              IF ver # resolved_ver
              THEN Append(acc.conflicts, <<"Resolved", dep, ver, resolved_ver>>)
              ELSE acc.conflicts]
    ELSE [acc EXCEPT !.deps = DSet(acc.deps, dep, ver)]

RECURSIVE Reconcile(_, _)
\* inferencer.py:62-70, over existing_deps.items(); acc = [deps, conflicts]
Reconcile(existing, acc) ==
    IF existing = <<>> THEN acc
    ELSE Reconcile(Tail(existing),
             ReconcileOne(Head(existing)[1], Head(existing)[2],
                 resolve_version_conflict(Head(existing)[2],
                     DGet(acc.deps, Head(existing)[1])),
                 acc))

\* inferencer.py:72-75
FetchLatest(deps, lang, source) ==
    [i \in 1..Len(deps) |->
        IF deps[i][2] = "latest"
        THEN <<deps[i][1], get_latest_version(deps[i][1], lang, source)>>
        ELSE deps[i]]

\* inferencer.py:79-85 for one (dep, ver) item; latest is what
\* _get_latest_version answers for dep.  An exception of semver.compare
\* leaves infer.  acc = [raised, deps, insights, conflicts]
SweepOne(dep, ver, lang, latest, acc) ==
    IF is_deprecated_raises(dep, ver, lang)
    THEN [acc EXCEPT !.raised = TRUE]
    ELSE IF ~is_deprecated(dep, ver, lang)
    THEN acc
    ELSE IF SemverCompareRaises(latest, ver)
    THEN [acc EXCEPT !.raised = TRUE,
                     !.insights = Append(@, <<"Deprecated", dep, ver>>)]
    ELSE IF SemverCompare(latest, ver) > 0
    THEN [raised |-> FALSE,
          deps |-> DSet(acc.deps, dep, latest),
          insights |-> Append(acc.insights, <<"Deprecated", dep, ver>>),
          conflicts |-> Append(acc.conflicts, <<"Auto-upgraded", dep, latest>>)]
    ELSE [acc EXCEPT !.insights = Append(@, <<"Deprecated", dep, ver>>)]

RECURSIVE Sweep(_, _, _, _)
\* inferencer.py:77-85, over sub_inferred['deps'].items() from position i
Sweep(i, lang, source, acc) ==
    IF i > Len(acc.deps) \/ acc.raised THEN acc
    ELSE Sweep(i + 1, lang, source,
             SweepOne(acc.deps[i][1], acc.deps[i][2], lang,
                 get_latest_version(acc.deps[i][1], lang, source), acc))

\* inferencer.py:41
SubdirLang(data, subdir, hseed) ==
    IF DHas(data.subdirs, subdir)
    THEN SetOrder(hseed, DGet(data.subdirs, subdir))[1]
    ELSE data.primary_lang

\* the record of one pass of the loop body: the value of each stage, kept
\* for inspection.  stage is where the pass ended: "done", or the stage
\* whose exception left infer.
SubdirRecord(subdir, lang, imports, existing_deps, c, r, l, s) ==
    [subdir |-> subdir,
     lang |-> lang,
     imports |-> imports,
     stage |-> IF c.raised THEN "classify"
               ELSE IF s.raised THEN "sweep" ELSE "done",
     calls |-> c.calls,
     declared |-> existing_deps,
     inferred |-> c.deps,
     reconciled |-> r.deps,
     reconcile_conflicts |-> r.conflicts,
     resolved |-> l,
     deps |-> s.deps,
     hidden |-> c.hidden,
     insights |-> c.insights \o s.insights,
     sweep_insights |-> s.insights,
     sweep_conflicts |-> s.conflicts]

\* inferencer.py:77-85
SweepStage(subdir, lang, imports, existing_deps, source, c, r, l) ==
    SubdirRecord(subdir, lang, imports, existing_deps, c, r, l,
        Sweep(1, lang, source,
            [raised |-> FALSE, deps |-> l, insights |-> <<>>,
             conflicts |-> <<>>]))

\* inferencer.py:72-75
LatestStage(subdir, lang, imports, existing_deps, source, c, r) ==
    SweepStage(subdir, lang, imports, existing_deps, source, c, r,
        FetchLatest(r.deps, lang, source))

\* inferencer.py:62-70
ReconcileStage(subdir, lang, imports, existing_deps, source, c) ==
    LatestStage(subdir, lang, imports, existing_deps, source, c,
        Reconcile(existing_deps, [deps |-> c.deps, conflicts |-> <<>>]))

\* inferencer.py:46-60
ClassifyStage(subdir, lang, imports, existing_deps, classifier, source) ==
    ReconcileStage(subdir, lang, imports, existing_deps, source,
        ClassifyImports(imports, lang, classifier,
            [raised |-> FALSE, deps |-> <<>>, insights |-> <<>>,
             hidden |-> <<>>, calls |-> 0]))

\* inferencer.py:43-44
MergeStage(subdir, lang, imports, configs, classifier, source) ==
    ClassifyStage(subdir, lang, imports,
        merge_existing_configs(configs, lang), classifier, source)

\* inferencer.py:39-85: one pass of the loop body
InferSubdir(data, subdir, parsed, hseed, classifier, source) ==
    MergeStage(subdir, SubdirLang(data, subdir, hseed), parsed.imports,
        IF DHas(data.configs, subdir) THEN DGet(data.configs, subdir)
        ELSE <<>>,
        classifier, source)

\* inferencer.py:87-90, or nothing when the pass raised
Accumulate(acc, sub) ==
    [raised |-> sub.stage # "done",
     trace |-> Append(acc.trace, sub),
     calls |-> acc.calls + sub.calls,
     inferred |->
         IF sub.stage # "done" THEN acc.inferred
         ELSE [deps |-> DUpdate(acc.inferred.deps, sub.deps),
               hidden |-> acc.inferred.hidden \o sub.hidden,
               conflicts |-> acc.inferred.conflicts
                   \o sub.reconcile_conflicts \o sub.sweep_conflicts,
               insights |-> acc.inferred.insights \o sub.insights,
               per_subdir |-> DSet(acc.inferred.per_subdir, sub.subdir,
                   [deps |-> sub.deps,
                    hidden |-> sub.hidden,
                    insights |-> sub.insights])]]

RECURSIVE InferLoop(_, _, _, _, _, _)
\* inferencer.py:38-90, over scanned_data['parsed'].items() from position i;
\* acc = [raised, inferred, trace, calls]
InferLoop(i, data, hseed, classifier, source, acc) ==
    IF i > Len(data.parsed) \/ acc.raised THEN acc
    ELSE InferLoop(i + 1, data, hseed, classifier, source,
             Accumulate(acc,
                 InferSubdir(data, data.parsed[i][1], data.parsed[i][2],
                     hseed, classifier, source)))

\* inferencer.py:30-36
EmptyInferred ==
    [deps |-> <<>>, hidden |-> <<>>, conflicts |-> <<>>, insights |-> <<>>,
     per_subdir |-> <<>>]

\* inferencer.py:30-90: the computation of infer past the cache lookup
InferCompute(data, hseed, classifier, source) ==
    InferLoop(1, data, hseed, classifier, source,
        [raised |-> FALSE, inferred |-> EmptyInferred, trace |-> <<>>,
         calls |-> 0])

\* ------------------------------------------------------------ Scanner.scan
\* The directories os.walk visits, in its order: the root, whose relative
\* path is ".", then one subdirectory.
Dirs == <<".", "lib">>

\* scanner.py:68-92.  subdirs starts as {'/': set()} and the walk adds one
\* key per directory visited; files is the set of languages with a file
\* directly in the directory.
detect_subdirs(tree) ==
    <<(<<"/", {}>>)>> \o [i \in 1..Len(Dirs) |-> <<Dirs[i], tree[Dirs[i]].files>>]

\* scanner.py:69-89: the file count per language, in the dict's key order
detect_langs(tree) ==
    LET Count(l) == Cardinality({i \in 1..Len(Dirs) : l \in tree[Dirs[i]].files})
    IN  <<(<<"python", Count("python")>>), (<<"js", Count("js")>>)>>

\* scanner.py:41 with forced_lang = None: max() keeps the first maximal key
primary_lang(langs) ==
    IF langs[2][2] > langs[1][2] THEN langs[2][1] ELSE langs[1][1]

\* scanner.py:94-120: the analyzer's result for the files of one language
\* under one directory
parse_files(tree, dir, lang) == [imports |-> tree[dir].imports[lang]]

\* scanner.py:125-139: the manifest files of the language found in the
\* directory.  A requirements.txt is its line sequence; a package.json is
\* kept as what json.loads makes of its lines.
detect_configs(tree, dir, lang) ==
    IF lang = "python" /\ tree[dir].req.exists
    THEN <<(<<"requirements.txt", tree[dir].req.lines>>)>>
    ELSE IF lang = "js" /\ tree[dir].pkg.exists
    THEN <<(<<"package.json",
              [json_ok |-> tree[dir].pkg.json_ok,
               dependencies |-> tree[dir].pkg.dependencies,
               devDependencies |-> tree[dir].pkg.devDependencies]>>)>>
    ELSE <<>>

\* scanner.py:48-50 for one subdirectory, sub_langs its languages in
\* iteration order
ScanSubdir(subdir, sub_langs, tree, acc) ==
    IF sub_langs = <<>> THEN acc
    ELSE [parsed |-> DSet(acc.parsed, subdir,
                         parse_files(tree, subdir, sub_langs[Len(sub_langs)])),
          configs |-> DSet(acc.configs, subdir,
                         detect_configs(tree, subdir, sub_langs[Len(sub_langs)])),
          parses |-> acc.parses + Len(sub_langs)]

RECURSIVE ScanLoop(_, _, _, _, _)
\* scanner.py:44-50, over subdirs.items() from position i: every language of
\* the set assigns parsed[subdir] and configs[subdir], so the last one in
\* iteration order stays.  acc = [parsed, configs, parses]
ScanLoop(i, subdirs, tree, hseed, acc) ==
    IF i > Len(subdirs) THEN acc
    ELSE ScanLoop(i + 1, subdirs, tree, hseed,
             ScanSubdir(subdirs[i][1], SetOrder(hseed, subdirs[i][2]), tree,
                        acc))

\* scanner.py:30-59: the scan of a local repository
ScanData(repo, langs, subdirs, loop) ==
    [parses |-> loop.parses,
     data |-> [repo_path |-> repo,
               primary_lang |-> primary_lang(langs),
               langs |-> langs,
               subdirs |-> subdirs,
               parsed |-> loop.parsed,
               configs |-> loop.configs]]

ScanCompute(repo, tree, hseed) ==
    ScanData(repo, detect_langs(tree), detect_subdirs(tree),
        ScanLoop(1, detect_subdirs(tree), tree, hseed,
            [parsed |-> <<>>, configs |-> <<>>, parses |-> 0]))

\* ------------------------------------------------------------- cache files
\* state of a cache file: "absent"; "record", a complete record; "partial",
\* a file that open() or json.load() raises on (unreadable, truncated, not
\* JSON); "fieldless", a JSON object without the fields the reader asks for
NoFile == [state |-> "absent"]

PartialFile == [state |-> "partial"]

FieldlessFile == [state |-> "fieldless"]

\* scanner.py:62-64.  open(..., 'w') truncates the file and json.dump writes
\* it chunk by chunk until it reaches the first value of data['subdirs'], a
\* set, where it raises TypeError: what stays on disk is the beginning of a
\* record.
scan_cache_write(repo, data) == PartialFile

\* inferencer.py:93-95: every value of the record is a dict, list, str, int
\* or None, so the dump completes
infer_cache_write(hseed, data, inferred) ==
    [state |-> "record", hash |-> Fingerprint(hseed, data),
     inferred |-> inferred]

\* scanner.py:21-66: one attempt of scan.
\* Result: [raised, data, file, parses]
ScanOutcome(repo, cache, file, computed) ==
    IF cache /\ file.state = "partial"
    THEN [raised |-> TRUE, data |-> <<>>, file |-> file, parses |-> 0]
    ELSE IF cache /\ file.state = "record" /\ file.repo = repo
    THEN [raised |-> FALSE, data |-> file.data, file |-> file, parses |-> 0]
    ELSE IF cache
    THEN [raised |-> TRUE, data |-> <<>>,
          file |-> scan_cache_write(repo, computed.data),
          parses |-> computed.parses]
    ELSE [raised |-> FALSE, data |-> computed.data, file |-> file,
          parses |-> computed.parses]

ScanAttempt(repo, tree, hseed, cache, file) ==
    ScanOutcome(repo, cache, file, ScanCompute(repo, tree, hseed))

RECURSIVE ScanRetry(_, _, _, _, _, _)
\* scanner.py:19: tenacity calls scan again after any exception, until the
\* attempt numbered RetryAttempts has failed.  a is the attempt just made.
ScanRetry(attempt, repo, tree, hseed, cache, a) ==
    IF a.raised /\ attempt < RetryAttempts
    THEN ScanRetry(attempt + 1, repo, tree, hseed, cache,
             [ScanAttempt(repo, tree, hseed, cache, a.file)
                 EXCEPT !.parses = @ + a.parses])
    ELSE [raised |-> a.raised, data |-> a.data, file |-> a.file,
          parses |-> a.parses, attempts |-> attempt]

\* scanner.py:19-66: scan as its caller sees it
scan(repo, tree, hseed, cache, file) ==
    ScanRetry(1, repo, tree, hseed, cache,
        ScanAttempt(repo, tree, hseed, cache, file))

\* inferencer.py:20-99.  Result: [raised, hit, inferred, file, trace, calls]
InferOutcome(data, hseed, cache, file, c) ==
    IF cache /\ file.state = "partial"
    THEN [raised |-> TRUE, hit |-> FALSE, inferred |-> EmptyInferred,
          file |-> file, trace |-> <<>>, calls |-> 0]
    ELSE IF cache /\ file.state = "record" /\ file.hash = Fingerprint(hseed, data)
    THEN [raised |-> FALSE, hit |-> TRUE, inferred |-> file.inferred,
          file |-> file, trace |-> <<>>, calls |-> 0]
    ELSE [raised |-> c.raised, hit |-> FALSE, inferred |-> c.inferred,
          file |-> IF cache /\ ~c.raised
                   THEN infer_cache_write(hseed, data, c.inferred)
                   ELSE file,
          trace |-> c.trace, calls |-> c.calls]

infer(data, hseed, classifier, source, cache, file) ==
    InferOutcome(data, hseed, cache, file,
        InferCompute(data, hseed, classifier, source))

\* ------------------------------------------------------- input universes
SeqsUpTo(S, n) == UNION {[1..k -> S] : k \in 0..n}

ImportSymbols == {"numpy", "tensorflow", "react"}

DepNames == {"numpy", "tensorflow", "react", "flask"}

NoReq == [exists |-> FALSE, lines |-> <<>>]

NoPkg == [exists |-> FALSE, json_ok |-> FALSE, dependencies |-> <<>>,
          devDependencies |-> <<>>]

\* a directory whose files of each language in files yield the imports imps
DirEntry(files, imps, req, pkg) ==
    [files |-> files,
     imports |-> [l \in Langs |-> IF l \in files THEN imps ELSE <<>>],
     req |-> req,
     pkg |-> pkg]

EmptyDir == DirEntry({}, <<>>, NoReq, NoPkg)

Tree(root, lib) == [d \in {".", "lib"} |-> IF d = "." THEN root ELSE lib]

\* requirements.txt lines: "numpy==1.24.0", ..., and "flask", which has no '=='
ReqLines ==
    {<<"numpy", "1.24.0">>, <<"numpy", "1.9.0">>, <<"numpy", "not-a-version">>,
     <<"tensorflow", "1.9.0">>, <<"flask">>}

PkgEntries == {<<"react", "1.24.0">>, <<"react", "not-a-version">>}

RichReqs ==
    {NoReq} \cup {[exists |-> TRUE, lines |-> ls] : ls \in SeqsUpTo(ReqLines, MaxLines)}

RichPkgs ==
    {NoPkg,
     [exists |-> TRUE, json_ok |-> FALSE, dependencies |-> <<>>,
      devDependencies |-> <<>>]}
    \cup {[exists |-> TRUE, json_ok |-> TRUE, dependencies |-> ds,
           devDependencies |-> dv] :
            ds \in SeqsUpTo(PkgEntries, MaxLines),
            dv \in {<<>>, <<(<<"react", "2.0.0">>)>>}}

\* repositories of one directory with the files of one language
RichRepos ==
    {Tree(DirEntry({"python"}, imps, req, NoPkg), EmptyDir) :
        imps \in SeqsUpTo(ImportSymbols, MaxImports), req \in RichReqs}
    \cup {Tree(DirEntry({"js"}, imps, NoReq, pkg), EmptyDir) :
        imps \in SeqsUpTo(ImportSymbols, MaxImports), pkg \in RichPkgs}

\* repositories of two directories, some holding files of both languages
PipeRepos ==
    {Tree(DirEntry(rf, ri, NoReq, NoPkg),
          DirEntry(lf, IF lf = {} THEN <<>> ELSE <<"tensorflow">>, NoReq, NoPkg)) :
        rf \in {{"python"}, {"js"}, {"python", "js"}},
        ri \in {<<>>, <<"numpy">>},
        lf \in {{}, {"python"}}}

Prediction(label, score) == [label |-> label, score |-> score]

\* what a classifier stub of kind t answers for the import imp
Template(t, imp) ==
    CASE t = "none"    -> [ok |-> TRUE, results |-> <<>>]
      [] t = "latest"  -> [ok |-> TRUE, results |-> <<Prediction(<<imp>>, 90)>>]
      [] t = "pinned"  -> [ok |-> TRUE,
                           results |-> <<Prediction(<<imp, "1.20.0">>, 90)>>]
      [] t = "low"     -> [ok |-> TRUE,
                           results |-> <<Prediction(<<imp, "2.0.0">>, 60)>>]
      [] t = "edge"    -> [ok |-> TRUE,
                           results |-> <<Prediction(<<imp, "2.15.0">>, 70)>>]
      [] t = "invalid" -> [ok |-> TRUE,
                           results |-> <<Prediction(<<imp, "not-a-version">>, 95)>>]
      [] t = "two"     -> [ok |-> TRUE,
                           results |-> <<Prediction(<<imp, "2.0.0">>, 80),
                                         Prediction(<<imp, "1.20.0">>, 75)>>]
      [] t = "other"   -> [ok |-> TRUE,
                           results |-> <<Prediction(<<"tensorflow", "1.9.0">>, 90)>>]
      [] OTHER         -> [ok |-> FALSE, results |-> <<>>]

Templates ==
    {"none", "latest", "pinned", "low", "edge", "invalid", "two", "other", "raise"}

Stub(t1, t2) ==
    [i \in ImportSymbols |->
        IF i = "tensorflow" THEN Template(t2, i) ELSE Template(t1, i)]

RichClassifiers ==
    {Stub(t1, t2) : t1 \in Templates, t2 \in {"none", "latest", "raise"}}

PipeClassifiers == {Stub(t, t) : t \in {"none", "latest", "pinned"}}

Sources == {[d \in DepNames |-> a] : a \in {"FAIL", "2.15.0"}}

\* ------------------------------------------------------------------- state
VARIABLES
    fs,                \* the repository on disk
    classifier,        \* the classifier's answer to each import's prompt
    source,            \* the package index's answer for each dependency
    scanner_cache,     \* Scanner.cache
    inferencer_cache,  \* Inferencer.cache
    scan_file,         \* autoenvforge_cache.json
    infer_file,        \* dep_cache.json
    hseed,             \* the running process's string hash seed
    pc,                \* "idle", "scan" or "infer"
    runs,              \* invocations started
    scanned_data,      \* what scan returned to the running invocation
    run,               \* the running (or last) invocation
    prev,              \* the invocation before it
    trace,             \* the stages of the last infer, one entry per subdirectory
    cmd,               \* the init command: its options and what it did after infer
    clone,             \* the attempts of a scan of a remote repository
    procs              \* two invocations running at the same time

vars ==
    <<fs, classifier, source, scanner_cache, inferencer_cache, scan_file,
      infer_file, hseed, pc, runs, scanned_data, run, prev, trace, cmd, clone,
      procs>>

Repo == "repo"

NoData == [ok |-> FALSE, data |-> <<>>]

\* kind: "none" no invocation, "running", "returned", "scan-error",
\* "infer-error".  scan_read and infer_read are the state the cache file was
\* in when scan and infer first read it, "none" when they did not.
NoRun ==
    [kind |-> "none", tree |-> <<>>, data |-> <<>>, parses |-> 0,
     calls |-> 0, hit |-> FALSE, inferred |-> EmptyInferred,
     scan_read |-> "none", infer_read |-> "none"]

\* the command has not got past infer: main.py:34-57 not entered
NoCmd ==
    [step |-> "off", preview |-> FALSE, auto_apply |-> FALSE, written |-> {},
     generated |-> <<>>, notice |-> FALSE, applied |-> FALSE,
     error |-> FALSE, exit_code |-> 0]

\* the repository is a local directory: scanner.py:31-33 not entered
NoClone == [attempt |-> 0, made |-> 0, path |-> ""]

\* one invocation at a time
NoProcs == <<>>

Init ==
    /\ fs \in PipeRepos
    /\ classifier \in PipeClassifiers
    /\ source \in Sources
    /\ scanner_cache \in BOOLEAN
    /\ inferencer_cache \in BOOLEAN
    /\ scan_file = NoFile
    /\ infer_file = NoFile
    /\ hseed = 0
    /\ pc = "idle"
    /\ runs = 0
    /\ scanned_data = NoData
    /\ run = NoRun
    /\ prev = NoRun
    /\ trace = <<>>
    /\ cmd = NoCmd
    /\ clone = NoClone
    /\ procs = NoProcs

\* main.py:26-30: a process starts and constructs Scanner(repo, cache) and
\* Inferencer(cache); s = hseed when it is the same process calling again
Invoke(s) ==
    /\ pc = "idle"
    /\ runs < MaxRuns
    /\ hseed' = s
    /\ pc' = "scan"
    /\ runs' = runs + 1
    /\ scanned_data' = NoData
    /\ prev' = run
    /\ run' = [NoRun EXCEPT !.kind = "running", !.tree = fs]
    /\ trace' = <<>>
    /\ UNCHANGED <<fs, classifier, source, scanner_cache, inferencer_cache,
                   scan_file, infer_file, cmd, clone, procs>>

\* main.py:28 and 58-59: r is what scan did; its exception ends the
\* invocation
ScanDone(r) ==
    /\ scan_file' = r.file
    /\ scanned_data' = IF r.raised THEN NoData
                       ELSE [ok |-> TRUE, data |-> r.data]
    /\ run' = [run EXCEPT !.parses = r.parses,
                          !.data = r.data,
                          !.scan_read = IF scanner_cache THEN scan_file.state
                                        ELSE "none",
                          !.kind = IF r.raised THEN "scan-error" ELSE @]
    /\ pc' = IF r.raised THEN "idle" ELSE "infer"

\* main.py:28, scanner.py:19-66
Scan ==
    /\ pc = "scan"
    /\ ScanDone(scan(Repo, fs, hseed, scanner_cache, scan_file))
    /\ UNCHANGED <<fs, classifier, source, scanner_cache, inferencer_cache,
                   infer_file, hseed, runs, prev, trace, cmd, clone, procs>>

\* main.py:32 and 58-59: r is what infer did
InferDone(r) ==
    /\ infer_file' = r.file
    /\ trace' = r.trace
    /\ run' = [run EXCEPT
                 !.kind = IF r.raised THEN "infer-error" ELSE "returned",
                 !.calls = r.calls,
                 !.hit = r.hit,
                 !.infer_read = IF inferencer_cache THEN infer_file.state
                                ELSE "none",
                 !.inferred = IF r.raised THEN EmptyInferred ELSE r.inferred]

\* main.py:32, inferencer.py:20-99
Infer ==
    /\ pc = "infer"
    /\ InferDone(infer(scanned_data.data, hseed, classifier, source,
                       inferencer_cache, infer_file))
    /\ pc' = "idle"
    /\ UNCHANGED <<fs, classifier, source, scanner_cache, inferencer_cache,
                   scan_file, hseed, runs, scanned_data, prev, cmd, clone,
                   procs>>

\* a file of the repository is added, removed or edited between invocations
ModifyRepo ==
    /\ pc = "idle"
    /\ runs \in 1..(MaxRuns - 1)
    /\ fs' \in PipeRepos \ {fs}
    /\ UNCHANGED <<classifier, source, scanner_cache, inferencer_cache,
                   scan_file, infer_file, hseed, pc, runs, scanned_data, run,
                   prev, trace, cmd, clone, procs>>

\* scanner.py:16, inferencer.py:14: a cache file that exists is damaged
\* between invocations (cut short, overwritten, made unreadable)
CorruptCache ==
    /\ pc = "idle"
    /\ \/ /\ scan_file.state # "absent"
          /\ scan_file' \in {PartialFile, FieldlessFile} \ {scan_file}
          /\ UNCHANGED infer_file
       \/ /\ infer_file.state # "absent"
          /\ infer_file' \in {PartialFile, FieldlessFile} \ {infer_file}
          /\ UNCHANGED scan_file
    /\ UNCHANGED <<fs, classifier, source, scanner_cache, inferencer_cache,
                   hseed, pc, runs, scanned_data, run, prev, trace, cmd,
                   clone, procs>>

Next ==
    \/ \E s \in Seeds : Invoke(s)
    \/ Scan
    \/ Infer
    \/ ModifyRepo
    \/ CorruptCache

Spec == Init /\ [][Next]_vars

\* One invocation, without caches, on each repository, classifier and
\* package index of the larger input universe.
InitInfer ==
    /\ fs \in RichRepos
    /\ classifier \in RichClassifiers
    /\ source \in Sources
    /\ scanner_cache = FALSE
    /\ inferencer_cache = FALSE
    /\ scan_file = NoFile
    /\ infer_file = NoFile
    /\ hseed = 0
    /\ pc = "scan"
    /\ runs = 1
    /\ scanned_data = NoData
    /\ run = [NoRun EXCEPT !.kind = "running", !.tree = fs]
    /\ prev = NoRun
    /\ trace = <<>>
    /\ cmd = NoCmd
    /\ clone = NoClone
    /\ procs = NoProcs

NextInfer ==
    \/ Scan
    \/ Infer

InferSpec == InitInfer /\ [][NextInfer]_vars

\* ----------------------------------------------------- the init command
\* generator.py:15-40 for one entry of per_subdir.  written is the set of
\* repository files written so far, <<directory, name>>; generated the keys
\* of generated_files.  _lock_python writes requirements.txt into the
\* repository directory and runs poetry or pip-compile there, lock_ok
\* telling whether one of them succeeds; _generate_js_package calls
\* json.dumps in a module that does not import json.  No .env content: the
\* parse results carry no function texts.
GenerateSubdir(subdir, lang, lock_ok, acc) ==
    IF acc.raised THEN acc
    ELSE IF lang = "python"
    THEN [raised |-> ~lock_ok,
          written |-> acc.written \cup {<<subdir, "requirements.txt">>},
          generated |->
              IF lock_ok
              THEN acc.generated \o <<(<<subdir, "requirements.txt">>),
                                      (<<subdir, "requirements.lock">>),
                                      (<<subdir, "build.python">>)>>
              ELSE acc.generated]
    ELSE IF lang = "js"
    THEN [acc EXCEPT !.raised = TRUE]
    ELSE [acc EXCEPT !.generated = Append(@, <<subdir, "build">>)]

RECURSIVE GenerateLoop(_, _, _, _, _, _)
\* generator.py:14-40
GenerateLoop(i, data, per_subdir, seed, lock_ok, acc) ==
    IF i > Len(per_subdir) THEN acc
    ELSE GenerateLoop(i + 1, data, per_subdir, seed, lock_ok,
             GenerateSubdir(per_subdir[i][1],
                 SubdirLang(data, per_subdir[i][1], seed), lock_ok, acc))

\* generator.py:12-47 with generate_docker = False
generate(data, inferred, seed, lock_ok) ==
    GenerateLoop(1, data, inferred.per_subdir, seed, lock_ok,
        [raised |-> FALSE, written |-> {}, generated |-> <<>>])

\* validator.py:14-81: every generated file is copied to and checked in a
\* fresh temporary directory, inside a handler that catches every exception
validate(generated) == [raised |-> FALSE, written |-> {}]

\* reporter.py:8-44: the report text is built, then line 41 evaluates
\* os.path.join in a module that does not import os, before any file is
\* opened
generate_report(data, inferred, generated) == [raised |-> TRUE, written |-> {}]

\* main.py:44-59: what init does with the report; confirm is the answer to
\* the prompt
Finish(c, report, confirm) ==
    IF report.raised
    THEN [c EXCEPT !.step = "done", !.error = TRUE]
    ELSE IF c.preview
    THEN [c EXCEPT !.step = "done", !.notice = TRUE]
    ELSE IF c.auto_apply \/ confirm
    THEN [c EXCEPT !.step = "done", !.applied = TRUE,
                   !.written = @ \cup {c.generated[k] : k \in 1..Len(c.generated)}]
    ELSE [c EXCEPT !.step = "done"]

GenerateDone(g) ==
    cmd' = [cmd EXCEPT !.written = g.written,
                       !.generated = g.generated,
                       !.error = g.raised,
                       !.step = IF g.raised THEN "done" ELSE "validate"]

\* main.py:34-36 and 58-59
Generate ==
    /\ pc = "idle"
    /\ run.kind = "returned"
    /\ cmd.step = "generate"
    /\ \E lock_ok \in BOOLEAN :
           GenerateDone(generate(run.data, run.inferred, hseed, lock_ok))
    /\ UNCHANGED <<fs, classifier, source, scanner_cache, inferencer_cache,
                   scan_file, infer_file, hseed, pc, runs, scanned_data, run,
                   prev, trace, clone, procs>>

\* main.py:58-59: scan or infer raised and the handler ends the command
Abort ==
    /\ pc = "idle"
    /\ run.kind \in {"scan-error", "infer-error"}
    /\ cmd.step = "generate"
    /\ cmd' = [cmd EXCEPT !.step = "done", !.error = TRUE]
    /\ UNCHANGED <<fs, classifier, source, scanner_cache, inferencer_cache,
                   scan_file, infer_file, hseed, pc, runs, scanned_data, run,
                   prev, trace, clone, procs>>

\* main.py:38-40
Validate ==
    /\ cmd.step = "validate"
    /\ cmd' = [cmd EXCEPT
                 !.written = @ \cup validate(cmd.generated).written,
                 !.step = "report"]
    /\ UNCHANGED <<fs, classifier, source, scanner_cache, inferencer_cache,
                   scan_file, infer_file, hseed, pc, runs, scanned_data, run,
                   prev, trace, clone, procs>>

\* main.py:42-59
Report ==
    /\ cmd.step = "report"
    /\ \E confirm \in BOOLEAN :
           cmd' = Finish(cmd, generate_report(run.data, run.inferred,
                                              cmd.generated), confirm)
    /\ UNCHANGED <<fs, classifier, source, scanner_cache, inferencer_cache,
                   scan_file, infer_file, hseed, pc, runs, scanned_data, run,
                   prev, trace, clone, procs>>

\* main.py:15-26: one run of the init command, without --cache
InitCommand ==
    /\ fs \in PipeRepos
    /\ classifier \in PipeClassifiers
    /\ source \in Sources
    /\ scanner_cache = FALSE
    /\ inferencer_cache = FALSE
    /\ scan_file = NoFile
    /\ infer_file = NoFile
    /\ hseed \in Seeds
    /\ pc = "scan"
    /\ runs = 1
    /\ scanned_data = NoData
    /\ run = [NoRun EXCEPT !.kind = "running", !.tree = fs]
    /\ prev = NoRun
    /\ trace = <<>>
    /\ \E p \in BOOLEAN, a \in BOOLEAN :
           cmd = [NoCmd EXCEPT !.step = "generate", !.preview = p,
                               !.auto_apply = a]
    /\ clone = NoClone
    /\ procs = NoProcs

NextCommand ==
    \/ Scan
    \/ Infer
    \/ Generate
    \/ Abort
    \/ Validate
    \/ Report

CommandSpec == InitCommand /\ [][NextCommand]_vars

\* ------------------------------------------------ scan of a remote repository
\* a repo_input that starts with 'http'
Remote == "https://repo"

\* scanner.py:32: the directory the n-th call of tempfile.mkdtemp() makes
TmpDir(n) == <<"tmp", n>>

\* scanner.py:22-28: the attempt ends at the cache read, by the record it
\* returns or by the exception of json.load
EndsAtRead(repo, cache, file) ==
    cache /\ (file.state = "partial"
                \/ (file.state = "record" /\ file.repo = repo))

\* scanner.py:21-66 for a remote reference: one attempt.  clone_ok tells
\* whether pygit2.clone_repository returns or raises; computed is the scan
\* of the directory cloned into.
RemoteOutcome(repo, cache, file, clone_ok, computed) ==
    IF ~EndsAtRead(repo, cache, file) /\ ~clone_ok
    THEN [raised |-> TRUE, data |-> <<>>, file |-> file, parses |-> 0]
    ELSE ScanOutcome(repo, cache, file, computed)

\* scanner.py:19 and main.py:28, 58-59: a is the attempt just made,
\* cloned whether it called clone_repository
RemoteDone(a, cloned, clone_ok) ==
    /\ scan_file' = a.file
    /\ clone' = [attempt |-> IF a.raised /\ clone.attempt < RetryAttempts
                             THEN clone.attempt + 1 ELSE clone.attempt,
                 made |-> IF cloned THEN clone.made + 1 ELSE clone.made,
                 path |-> IF cloned /\ clone_ok THEN TmpDir(clone.made + 1)
                          ELSE clone.path]
    /\ pc' = IF ~a.raised THEN "infer"
             ELSE IF clone.attempt < RetryAttempts THEN "scan" ELSE "idle"
    /\ scanned_data' = IF a.raised THEN NoData
                       ELSE [ok |-> TRUE, data |-> a.data]
    /\ run' = [run EXCEPT
                 !.parses = @ + a.parses,
                 !.data = a.data,
                 !.scan_read = IF clone.attempt > 1 THEN @
                               ELSE IF scanner_cache THEN scan_file.state
                               ELSE "none",
                 !.kind = IF a.raised /\ clone.attempt >= RetryAttempts
                          THEN "scan-error" ELSE @]

\* scanner.py:19-66: one attempt of the scan of a remote repository
RemoteAttempt(clone_ok) ==
    /\ pc = "scan"
    /\ clone.attempt \in 1..RetryAttempts
    /\ RemoteDone(RemoteOutcome(Remote, scanner_cache, scan_file, clone_ok,
                      ScanCompute(TmpDir(clone.made + 1), fs, hseed)),
                  ~EndsAtRead(Remote, scanner_cache, scan_file), clone_ok)
    /\ UNCHANGED <<fs, classifier, source, scanner_cache, inferencer_cache,
                   infer_file, hseed, runs, prev, trace, cmd, procs>>

\* main.py:26-28: one invocation on a remote repository
InitRemote ==
    /\ fs \in PipeRepos
    /\ classifier \in PipeClassifiers
    /\ source \in Sources
    /\ scanner_cache \in BOOLEAN
    /\ inferencer_cache = FALSE
    /\ scan_file = NoFile
    /\ infer_file = NoFile
    /\ hseed \in Seeds
    /\ pc = "scan"
    /\ runs = 1
    /\ scanned_data = NoData
    /\ run = [NoRun EXCEPT !.kind = "running", !.tree = fs]
    /\ prev = NoRun
    /\ trace = <<>>
    /\ cmd = NoCmd
    /\ clone = [attempt |-> 1, made |-> 0, path |-> ""]
    /\ procs = NoProcs

NextRemote ==
    \/ \E clone_ok \in BOOLEAN : RemoteAttempt(clone_ok)
    \/ Infer

RemoteSpec == InitRemote /\ [][NextRemote]_vars

\* ------------------------------------------------ concurrent invocations
Procs == {1, 2}

\* an invocation about to scan, in a process whose hash seed is seed.  pc:
\* "scan_read", "scan_open", "scan_dump", "infer_read", "infer_open",
\* "infer_dump", "done".  saw_partial: a cache read of the invocation met a
\* file that was no complete record.
NewProc(seed) ==
    [pc |-> "scan_read", seed |-> seed, attempt |-> 1, data |-> <<>>,
     inferred |-> EmptyInferred, saw_partial |-> FALSE, error |-> FALSE]

\* scanner.py:19: an exception in attempt n of scan
ScanRaised(proc) ==
    IF proc.attempt < RetryAttempts
    THEN [proc EXCEPT !.pc = "scan_read", !.attempt = @ + 1]
    ELSE [proc EXCEPT !.pc = "done", !.error = TRUE]

\* scanner.py:21-59, computed the scan of this attempt
ScanReadDone(i, computed) ==
    procs' = [procs EXCEPT ![i] =
        IF scanner_cache /\ scan_file.state = "partial"
        THEN ScanRaised([procs[i] EXCEPT !.saw_partial = TRUE])
        ELSE IF scanner_cache /\ scan_file.state = "record"
                /\ scan_file.repo = Repo
        THEN [procs[i] EXCEPT !.pc = "infer_read", !.data = scan_file.data]
        ELSE [procs[i] EXCEPT !.pc = IF scanner_cache THEN "scan_open"
                                    ELSE "infer_read",
                             !.data = computed.data]]

\* scanner.py:21-59: the cache read and the scan
ScanRead(i) ==
    /\ procs[i].pc = "scan_read"
    /\ ScanReadDone(i, ScanCompute(Repo, fs, procs[i].seed))
    /\ UNCHANGED <<fs, classifier, source, scanner_cache, inferencer_cache,
                   scan_file, infer_file, hseed, pc, runs, scanned_data, run,
                   prev, trace, cmd, clone>>

\* scanner.py:63: open(self.cache_file, 'w') empties the file
ScanOpen(i) ==
    /\ procs[i].pc = "scan_open"
    /\ scan_file' = PartialFile
    /\ procs' = [procs EXCEPT ![i].pc = "scan_dump"]
    /\ UNCHANGED <<fs, classifier, source, scanner_cache, inferencer_cache,
                   infer_file, hseed, pc, runs, scanned_data, run, prev,
                   trace, cmd, clone>>

\* scanner.py:64: json.dump raises on the sets of data['subdirs']
ScanDump(i) ==
    /\ procs[i].pc = "scan_dump"
    /\ scan_file' = scan_cache_write(Repo, procs[i].data)
    /\ procs' = [procs EXCEPT ![i] = ScanRaised(procs[i])]
    /\ UNCHANGED <<fs, classifier, source, scanner_cache, inferencer_cache,
                   infer_file, hseed, pc, runs, scanned_data, run, prev,
                   trace, cmd, clone>>

\* inferencer.py:21-90, c the computation of this call
InferReadDone(i, c) ==
    procs' = [procs EXCEPT ![i] =
        IF inferencer_cache /\ infer_file.state = "partial"
        THEN [procs[i] EXCEPT !.pc = "done", !.error = TRUE,
                             !.saw_partial = TRUE]
        ELSE IF inferencer_cache /\ infer_file.state = "record"
                /\ infer_file.hash = Fingerprint(procs[i].seed, procs[i].data)
        THEN [procs[i] EXCEPT !.pc = "done", !.inferred = infer_file.inferred]
        ELSE IF c.raised
        THEN [procs[i] EXCEPT !.pc = "done", !.error = TRUE]
        ELSE [procs[i] EXCEPT !.pc = IF inferencer_cache THEN "infer_open"
                                    ELSE "done",
                             !.inferred = c.inferred]]

\* inferencer.py:21-90: the cache read and the inference
InferRead(i) ==
    /\ procs[i].pc = "infer_read"
    /\ InferReadDone(i, InferCompute(procs[i].data, procs[i].seed, classifier,
                                     source))
    /\ UNCHANGED <<fs, classifier, source, scanner_cache, inferencer_cache,
                   scan_file, infer_file, hseed, pc, runs, scanned_data, run,
                   prev, trace, cmd, clone>>

\* inferencer.py:94: open(self.cache_file, 'w') empties the file
InferOpen(i) ==
    /\ procs[i].pc = "infer_open"
    /\ infer_file' = PartialFile
    /\ procs' = [procs EXCEPT ![i].pc = "infer_dump"]
    /\ UNCHANGED <<fs, classifier, source, scanner_cache, inferencer_cache,
                   scan_file, hseed, pc, runs, scanned_data, run, prev,
                   trace, cmd, clone>>

\* inferencer.py:95: json.dump writes the record
InferDump(i) ==
    /\ procs[i].pc = "infer_dump"
    /\ infer_file' = infer_cache_write(procs[i].seed, procs[i].data,
                                       procs[i].inferred)
    /\ procs' = [procs EXCEPT ![i].pc = "done"]
    /\ UNCHANGED <<fs, classifier, source, scanner_cache, inferencer_cache,
                   scan_file, hseed, pc, runs, scanned_data, run, prev,
                   trace, cmd, clone>>

\* two invocations on the same repository, Inferencer(cache=True) in both
InitConcurrent ==
    /\ fs \in PipeRepos
    /\ classifier \in PipeClassifiers
    /\ source \in Sources
    /\ scanner_cache \in BOOLEAN
    /\ inferencer_cache = TRUE
    /\ scan_file = NoFile
    /\ infer_file = NoFile
    /\ hseed = 0
    /\ pc = "idle"
    /\ runs = 0
    /\ scanned_data = NoData
    /\ run = NoRun
    /\ prev = NoRun
    /\ trace = <<>>
    /\ cmd = NoCmd
    /\ clone = NoClone
    /\ \E seed \in Seeds : procs = <<NewProc(0), NewProc(seed)>>

NextConcurrent ==
    \E i \in Procs :
        \/ ScanRead(i)
        \/ ScanOpen(i)
        \/ ScanDump(i)
        \/ InferRead(i)
        \/ InferOpen(i)
        \/ InferDump(i)

ConcurrentSpec == InitConcurrent /\ [][NextConcurrent]_vars

\* ------------------------------------------------------------------ claims
Count(seq, x) == Cardinality({i \in 1..Len(seq) : seq[i] = x})

\* the entries of a log that name the dependency dep
Naming(log, dep) == {i \in 1..Len(log) : log[i][2] = dep}

\* the invocation has ended, one way or the other
Finished == pc = "idle" /\ run.kind \in {"returned", "scan-error", "infer-error"}

\* the passes of the last infer that got to reconcile declared and inferred
Reconciled == {i \in 1..Len(trace) : trace[i].stage # "classify"}

\* C1: after scan and infer, per_subdir holds exactly one entry for every key
\* of the snapshot's subdirs map (the root and the directories without
\* recognized files included) and no other entry.
C1_PerSubdirCoversSubdirs ==
    (pc = "idle" /\ run.kind = "returned") =>
        /\ DKeySet(run.inferred.per_subdir) = DKeySet(run.data.subdirs)
        /\ Len(run.inferred.per_subdir)
               = Cardinality(DKeySet(run.data.subdirs))

SourceFails(dep, lang) == lang # "python" \/ source[dep] = "FAIL"

\* C5: a dependency that is 'latest' after reconciliation, in any ecosystem,
\* whose version source fails or has no answer, is 'latest' in the result,
\* and infer returns, the deprecation sweep included.
C5_SentinelStaysLatest ==
    Finished =>
        \A i \in Reconciled :
            \A d \in DKeySet(trace[i].reconciled) :
                (DGet(trace[i].reconciled, d) = "latest"
                    /\ SourceFails(d, trace[i].lang)) =>
                        /\ run.kind = "returned"
                        /\ DGet(DGet(run.inferred.per_subdir,
                                     trace[i].subdir).deps, d) = "latest"

\* C6: every dependency the rule base implies for an import of a
\* subdirectory, in the subdirectory's ecosystem, is in the subdirectory's
\* hidden list and in the global one, whatever the classifier answered.
\* (A subdirectory of one ecosystem: which ecosystem a subdirectory of
\* several is resolved under is the matter of C17.)
C6_RuleBaseAlwaysSurfaces ==
    (pc = "idle" /\ run.kind = "returned") =>
        \A k \in 1..Len(run.inferred.per_subdir) :
            LET subdir == run.inferred.per_subdir[k][1]
                entry == run.inferred.per_subdir[k][2]
                tags == DGet(run.data.subdirs, subdir)
                imports == DGet(run.data.parsed, subdir).imports
            IN  \A lang \in tags :
                    Cardinality(tags) = 1 =>
                        \A n \in 1..Len(imports) :
                            \A h \in 1..Len(infer_hidden(imports[n], lang)) :
                                /\ Count(entry.hidden,
                                         infer_hidden(imports[n], lang)[h]) > 0
                                /\ Count(run.inferred.hidden,
                                         infer_hidden(imports[n], lang)[h]) > 0

\* numpy imported in a python directory, no prediction accepted, and scipy
\* and matplotlib are in the hidden list
C6_Witness ==
    /\ pc = "idle"
    /\ run.kind = "returned"
    /\ run.inferred.insights = <<>>
    /\ \E k \in 1..Len(run.inferred.per_subdir) :
           /\ DGet(run.data.subdirs, run.inferred.per_subdir[k][1]) = {"python"}
           /\ Count(DGet(run.data.parsed,
                         run.inferred.per_subdir[k][1]).imports, "numpy") > 0
           /\ Count(run.inferred.per_subdir[k][2].hidden, "scipy") > 0
           /\ Count(run.inferred.hidden, "matplotlib") > 0

\* the version is below the deprecation table's cutoff for the ecosystem:
\* tensorflow below 2.0 in python
BelowCutoff(dep, ver, lang) ==
    /\ InDeprecationTable(dep, lang)
    /\ SemverValid(ver)
    /\ SemverParse(ver)[1] < 2

\* C7: in the sweep every resolved pair below the cutoff gets exactly one
\* Deprecation insight, is replaced by the latest known version when that
\* is higher, and gets exactly one Conflict entry if and only if its version
\* changed; every other pair gets neither.
C7_SweepHandlesDeprecated ==
    \A i \in Reconciled :
        LET t == trace[i]
        IN  \A j \in 1..Len(t.resolved) :
                LET dep == t.resolved[j][1]
                    ver == t.resolved[j][2]
                IN  IF BelowCutoff(dep, ver, t.lang)
                    THEN /\ t.stage = "done"
                         /\ Count(t.sweep_insights, <<"Deprecated", dep, ver>>) = 1
                         /\ Cardinality(Naming(t.sweep_insights, dep)) = 1
                         /\ (source[dep] # "FAIL"
                               /\ SemverLess(SemverParse(ver),
                                             SemverParse(source[dep])))
                              => DGet(t.deps, dep) = source[dep]
                         /\ Cardinality(Naming(t.sweep_conflicts, dep))
                              = IF DGet(t.deps, dep) # ver THEN 1 ELSE 0
                    ELSE t.stage = "done" =>
                         /\ Naming(t.sweep_insights, dep) = {}
                         /\ Naming(t.sweep_conflicts, dep) = {}

\* C8: two runs of infer on identical scanned data, the classifier and the
\* version source answering the same, return identical results, also when
\* the two runs are two invocations of the program.
C8_SameInputsSameResult ==
    (pc = "idle" /\ run.kind = "returned" /\ prev.kind = "returned"
        /\ run.data = prev.data) =>
            run.inferred = prev.inferred

\* both caches are on
Caching == scanner_cache /\ inferencer_cache

\* C9: with caching on, the second of two successive runs over an unmodified
\* repository returns the result the first one stored, without calling the
\* analyzer or the classifier.
C9_SecondRunIsServedFromCache ==
    (Caching /\ Finished /\ prev.kind # "none" /\ run.tree = prev.tree) =>
        /\ run.kind = "returned"
        /\ run.parses = 0
        /\ run.calls = 0
        /\ run.hit
        /\ run.inferred = prev.inferred

\* C10: with caching on, a run never returns scan or inference data of
\* another content than the repository's, and a run after a file change is
\* a cache miss that scans and infers again.
C10_ChangeInvalidatesCache ==
    (Caching /\ Finished) =>
        /\ run.kind = "returned" =>
               /\ run.data = ScanCompute(Repo, run.tree, hseed).data
               /\ run.inferred
                    = InferCompute(run.data, hseed, classifier, source).inferred
        /\ (prev.kind # "none" /\ run.tree # prev.tree) =>
               /\ run.kind \in {"returned", "infer-error"}
               /\ run.parses > 0
               /\ ~run.hit

\* the cache file was there when it was read, but was no complete record
Damaged == {"partial", "fieldless"}

\* C11: with caching on, a cache file that exists but is unreadable,
\* truncated, not JSON or without the expected fields is a cache miss: scan
\* and infer compute in full and return what they computed, and nothing is
\* raised because of the cache.
C11_DamagedCacheIsAMiss ==
    Finished =>
        /\ (scanner_cache /\ run.scan_read \in Damaged) =>
               /\ run.kind # "scan-error"
               /\ run.parses > 0
               /\ run.data = ScanCompute(Repo, run.tree, hseed).data
        /\ (inferencer_cache /\ run.infer_read \in Damaged) =>
               /\ ~run.hit
               /\ run.calls
                    = InferCompute(run.data, hseed, classifier, source).calls
               /\ run.kind = "infer-error"
                    <=> InferCompute(run.data, hseed, classifier, source).raised
               /\ run.kind = "returned" =>
                      run.inferred
                        = InferCompute(run.data, hseed, classifier, source).inferred

\* C12: a prediction the classifier returned for an import is accepted, that
\* is put in the subdirectory's inferred map and recorded with exactly one
\* insight per call that returned it, if and only if its confidence is at or
\* above the threshold 0.7; one of exactly 0.7 is accepted, one below is not.
C12_AcceptedIffAtOrAboveThreshold ==
    \A i \in Reconciled :
        \A imp \in {trace[i].imports[n] : n \in 1..Len(trace[i].imports)} :
            \A k \in 1..Len(classifier[imp].results) :
                LET p == classifier[imp].results[k]
                    logged == Count(trace[i].insights,
                                    <<"Inferred", p.label, imp, p.score>>)
                IN  IF p.score >= Threshold
                    THEN /\ DHas(trace[i].inferred, p.label[1])
                         /\ logged = Count(trace[i].imports, imp)
                    ELSE logged = 0

\* the classifier call raises for some import of the scanned directories
ClassifierFails ==
    \E k \in 1..Len(run.data.parsed) :
        \E n \in 1..Len(run.data.parsed[k][2].imports) :
            ~classifier[run.data.parsed[k][2].imports[n]].ok

\* C13: a classifier call that fails for an import does not abort infer:
\* the import counts as having no prediction, every other import and every
\* other subdirectory is processed, and each has its per_subdir entry in
\* the result.
C13_ClassifierFailureIsNotFatal ==
    (pc = "idle" /\ run.kind \in {"returned", "infer-error"}
        /\ ClassifierFails) =>
            /\ \A i \in 1..Len(trace) : trace[i].stage # "classify"
            /\ Len(trace) = Len(run.data.parsed)
            /\ \A i \in 1..Len(trace) :
                   trace[i].calls = Len(trace[i].imports)
            /\ run.kind = "returned" =>
                   DKeySet(run.inferred.per_subdir) = DKeySet(run.data.parsed)

\* C14: the init command run with --preview ends with exit code 0 after
\* printing the preview notice, never calls Generator.apply, and creates or
\* modifies no file of the repository directory at any step.
C14_PreviewWritesNothing ==
    cmd.preview =>
        /\ cmd.written = {}
        /\ ~cmd.applied
        /\ cmd.step = "done" => (cmd.exit_code = 0 /\ cmd.notice)

\* C15: a failing materialization is retried up to 3 times: the scan ends in
\* an error only when the attempts are used up, never makes more than the 3
\* attempts, and a scan whose materialization succeeded returns the scan
\* data of the directory that was materialized.
C15_MaterializationIsRetried ==
    /\ clone.attempt <= RetryAttempts
    /\ (clone.attempt > 0 /\ pc # "scan") =>
           /\ run.kind = "scan-error" => clone.attempt = RetryAttempts
           /\ clone.path # "" =>
                  /\ run.kind # "scan-error"
                  /\ run.data = ScanCompute(clone.path, run.tree, hseed).data

\* C16: when two invocations with caching on run at the same time on the
\* same repository, every read of a cache file finds no record or one
\* complete record, never a partial one: writers publish atomically.
C16_ReadersSeeCompleteRecords ==
    \A i \in DOMAIN procs : ~procs[i].saw_partial

\* the number of imports the files of the ecosystems tags have in the
\* directory dir of the repository tree
ImportsIn(tree, dir, tags) ==
    (IF "python" \in tags THEN Len(tree[dir].imports["python"]) ELSE 0)
        + (IF "js" \in tags THEN Len(tree[dir].imports["js"]) ELSE 0)

\* C17: a subdirectory tagged with several ecosystems is resolved for each
\* of them, the imports of every ecosystem being resolved, and the
\* ecosystem infer applies to the subdirectory's parse result and config is
\* the one the scanner produced them for.
C17_EveryEcosystemIsResolved ==
    (pc = "idle" /\ run.kind \in {"returned", "infer-error"}) =>
        \A i \in 1..Len(trace) :
            LET tags == DGet(run.data.subdirs, trace[i].subdir)
                order == SetOrder(hseed, tags)
            IN  Cardinality(tags) > 1 =>
                    /\ trace[i].lang = order[Len(order)]
                    /\ Len(trace[i].imports)
                         = ImportsIn(run.tree, trace[i].subdir, tags)

====
